---- MODULE Spec2Model ----
(***************************************************************************)
(* whisper-to-influxdb: the concurrent migration pipeline of               *)
(* whisper-to-influxdb.go.  One walker (main/process), whisperWorkers      *)
(* extract goroutines, influxWorkers load goroutines and the keepOrder     *)
(* goroutine, communicating over unbuffered channels.                      *)
(*                                                                         *)
(* Strings are sequences of one-character strings.  A send on an           *)
(* unbuffered channel is one joint step of the sender and the receiver.    *)
(* Code that a goroutine runs between two channel operations touches only  *)
(* that goroutine's locals and is one step, except a call that has an      *)
(* effect outside the process (a write to InfluxDB, a print of the resume  *)
(* cursor, os.Exit), which is a step of its own.  The goroutines of a pool  *)
(* run the same function and have no identity: a pool is the bag of its    *)
(* goroutines' local states.                                               *)
(***************************************************************************)
EXTENDS Integers, Sequences, FiniteSets, Bags, TLC

\* ------------------------------------------------------------------ bounds
\* number of entries the filesystem walk visits
WalkLen == 3
\* -whisperWorkers
whisperWorkers == 2
\* -influxWorkers
influxWorkers == 2
\* number of entries of the long directory, walked with few workers
LongWalkLen == 5
\* -whisperWorkers and -influxWorkers of the runs over the long directory
fewWorkers == 1

\* ----------------------------------------------------------------- strings
\* strings.HasSuffix
HasSuffix(s, suffix) ==
    /\ Len(s) >= Len(suffix)
    /\ SubSeq(s, Len(s) - Len(suffix) + 1, Len(s)) = suffix

\* strings.Contains; the empty substring is contained in every string
Contains(s, substr) ==
    \E i \in 1..(Len(s) + 1) :
        /\ i + Len(substr) - 1 <= Len(s)
        /\ SubSeq(s, i, i + Len(substr) - 1) = substr

\* strings.TrimSuffix
TrimSuffix(s, suffix) ==
    IF HasSuffix(s, suffix) THEN SubSeq(s, 1, Len(s) - Len(suffix)) ELSE s

\* strings.Replace(s, old, new, -1) for one-character old and new
Replace(s, old, new) ==
    [i \in 1..Len(s) |-> IF s[i] = old THEN new ELSE s[i]]

Wsp == <<".", "w", "s", "p">>

\* whisperDir, with no / at the end
whisperDir == <<"d">>

\* ---------------------------------------------------------------- the walk
\* The entries filepath.Walk visits, in traversal order: archive files, one of
\* them in a subdirectory, and a file that is no archive.
Stems ==
    << <<"a">>, <<"b">>, <<"x", "/", "c">>, <<"n", "o">>, <<"e">>, <<"x", "/", "f">> >>

StemOf(i) ==
    LET base == Stems[((i - 1) % Len(Stems)) + 1]
        rep  == (i - 1) \div Len(Stems)
    IN  base \o [j \in 1..rep |-> "z"]

PathOf(i) ==
    whisperDir \o <<"/">> \o StemOf(i)
        \o (IF ((i - 1) % Len(Stems)) + 1 = 4 THEN <<".", "t">> ELSE Wsp)

\* the longest directory walked
DirMax == IF LongWalkLen > WalkLen THEN LongWalkLen ELSE WalkLen

Walk == [i \in 1..DirMax |-> PathOf(i)]

Paths == {Walk[i] : i \in 1..DirMax}

\* position of a path in the walk
WalkPos(path) == CHOOSE i \in 1..DirMax : Walk[i] = path

\* ---------------------------------------------------- the source collaborator
\* number of retention resolutions of every archive file (w.Header.Archives)
NumArchives == 2

Point(t, v) == [Timestamp |-> t, Value |-> v]

\* w.DumpArchive(i): every slot of resolution i, the slots never written
\* (timestamp 0) included.  Resolution 0 is the finest.
DumpArchive(path, i) ==
    LET n == WalkPos(path) IN
    IF i = 0
    THEN <<Point(100, 10 * n + 1), Point(0, 0), Point(200, 10 * n + 2)>>
    ELSE <<Point(0, 0), Point(100, 10 * n + 5 + i)>>

\* w.FetchUntil(fromTime, untilTime): the written points of the interval
FetchUntil(path) ==
    LET n == WalkPos(path) IN <<Point(100, 10 * n + 1), Point(200, 10 * n + 2)>>

\* every point of a dump kept, the slots never written too
AllPoints(points) == points

\* the points of a dump that are kept: point.Timestamp != 0
NonZero(points) == SelectSeq(points, LAMBDA p : p.Timestamp # 0)

\* ------------------------------------------------------------ configuration
\* The flag settings explored: the bounded-range mode under every combination
\* of the two failure-skip flags, the full-dump mode with read failures skipped
\* and with read failures fatal, and each filter and the skip cursor switched
\* on once.
Flags(sw, si, al) ==
    [skipWhisperErrors |-> sw, skipInfluxErrors |-> si, all |-> al,
     include |-> <<>>, exclude |-> <<>>, skipUntil |-> <<>>]

Configs ==
    {Flags(sw, si, FALSE) : sw \in BOOLEAN, si \in BOOLEAN}
    \cup {Flags(TRUE, FALSE, TRUE), Flags(FALSE, TRUE, TRUE)}
    \cup {[Flags(TRUE, TRUE, FALSE) EXCEPT !.include = <<"x">>],
          [Flags(TRUE, TRUE, FALSE) EXCEPT !.exclude = <<"b">>],
          [Flags(TRUE, TRUE, FALSE) EXCEPT !.skipUntil = Walk[2]]}

VARIABLES
    skipWhisperErrors, skipInfluxErrors, all, include, exclude,  \* flags
    dirLen,                        \* number of entries under whisperDir
    skipUntil, skipCounter,        \* the skip cursor and the suppressed count
    mainPc, walkIdx,               \* main: where it is, the entry being visited
    whisperFilesClosed, influxSeriesClosed,
    whisperWorkersWg, influxWorkersWg,
    keepOrderPc, firstInProgress, code,   \* keepOrder and its list
    whisperPool,                   \* bag of the whisperWorker goroutines' locals
    influxPool,                    \* bag of the influxWorker goroutines' locals
    exited,                        \* <<>> while the process runs, else <<status>>
    printed,                       \* what keepOrder printed as the resume cursor
    influxDb,                      \* bag of the batches InfluxDB accepted from this run
    recorded,                      \* history: the keys received on foundFiles
    taken,                         \* history: bag of the keys received on whisperFiles
    loaded,                        \* history: bag of the keys received on influxSeries
    completed,                     \* history: bag of the keys received on finishedFiles
    notFound,                      \* history: completions that found no entry
    readFailed,                    \* history: keys with a failed open or read
    fatal,                         \* history: the fatal paths taken
    skipUntilFlag,                 \* the -skipUntil flag this run was started with
    run, firstRun                  \* run number; what the first run left behind

cfgVars == <<skipWhisperErrors, skipInfluxErrors, all, include, exclude, dirLen>>
mainVars == <<skipUntil, skipCounter, mainPc, walkIdx>>
chanVars == <<whisperFilesClosed, influxSeriesClosed>>
wgVars == <<whisperWorkersWg, influxWorkersWg>>
orderVars == <<keepOrderPc, firstInProgress, code>>
wVars == <<whisperPool>>
iVars == <<influxPool>>
histVars == <<recorded, taken, loaded, completed, notFound, readFailed, fatal>>
runVars == <<skipUntilFlag, run, firstRun>>

vars == <<cfgVars, mainVars, chanVars, wgVars, orderVars, wVars, iVars,
          exited, printed, influxDb, histVars, runVars>>

NoSerie == [Path |-> <<>>, Points |-> <<>>]

\* a whisperWorker at the head of its range loop, waiting on whisperFiles
WhisperIdle ==
    [pc |-> "recv", path |-> <<>>, stage |-> "none", arch |-> 0, points |-> <<>>]

\* an influxWorker at the head of its range loop, waiting on influxSeries
InfluxIdle == [pc |-> "recv", serie |-> NoSerie]

\* n goroutines in local state s
Copies(s, n) == [x \in (IF n > 0 THEN {s} ELSE {}) |-> n]

\* the pool after one goroutine went from local state s to local state t
Step(pool, s, t) == (pool (-) SetToBag({s})) (+) SetToBag({t})

\* the local states of the goroutines of a pool
Workers(pool) == BagToSet(pool)

\* The state when main has started nw whisper workers, ni influx workers and
\* keepOrder and is about to call filepath.Walk, for a run with skip cursor su
\* (lines 269-275, 334-345).
StartWorkers(su, nw, ni) ==
    /\ skipUntil = su
    /\ skipCounter = 0
    /\ mainPc = "walk"
    /\ walkIdx = 1
    /\ whisperFilesClosed = FALSE
    /\ influxSeriesClosed = FALSE
    /\ whisperWorkersWg = nw
    /\ influxWorkersWg = ni
    /\ keepOrderPc = "select"
    /\ firstInProgress = <<>>
    /\ code = 0
    /\ whisperPool = Copies(WhisperIdle, nw)
    /\ influxPool = Copies(InfluxIdle, ni)
    /\ exited = <<>>
    /\ printed = <<>>
    /\ influxDb = EmptyBag
    /\ recorded = <<>>
    /\ taken = EmptyBag
    /\ loaded = EmptyBag
    /\ completed = EmptyBag
    /\ notFound = {}
    /\ readFailed = {}
    /\ fatal = {}

Start(su) == StartWorkers(su, whisperWorkers, influxWorkers)

Init ==
    \E c \in Configs :
        /\ skipWhisperErrors = c.skipWhisperErrors
        /\ skipInfluxErrors = c.skipInfluxErrors
        /\ all = c.all
        /\ include = c.include
        /\ exclude = c.exclude
        /\ dirLen = WalkLen
        /\ Start(c.skipUntil)
        /\ skipUntilFlag = c.skipUntil
        /\ run = 1
        /\ firstRun = <<>>

Running == exited = <<>>

\* ------------------------------------------------------------ main, process
\* the two sends of process in the other order
EmitOrderSwapped == <<"whisperFiles", "foundFiles">>

\* The order in which process hands an eligible path over: first to keepOrder
\* on foundFiles, then to the whisper workers on whisperFiles.
EmitOrder == <<"foundFiles", "whisperFiles">>

\* the filters of process without the check of the .wsp suffix
PassesFiltersAnySuffix(path) ==
    /\ ~(exclude # <<>> /\ Contains(path, exclude))
    /\ Contains(path, include)

\* the filters of process, applied to a path after the skip cursor was updated
PassesFilters(path) ==
    /\ HasSuffix(path, Wsp)
    /\ ~(exclude # <<>> /\ Contains(path, exclude))
    /\ Contains(path, include)

\* the skip cursor never cleared
SkipUntilKept(path, su) == su

\* skipUntil after process has looked at path
SkipUntilAfter(path, su) == IF path = su THEN <<>> ELSE su

\* where main goes when process returned nil for the entry at walkIdx
NextEntry ==
    /\ walkIdx' = walkIdx + 1
    /\ mainPc' = "walk"

\* process(path, info, err) up to its first channel send or its return
Process ==
    /\ Running
    /\ mainPc = "walk"
    /\ walkIdx <= dirLen
    /\ \E err \in BOOLEAN :
        LET path == Walk[walkIdx]
            su   == SkipUntilAfter(path, skipUntil)
        IN  /\ skipUntil' = su
            /\ IF err
               THEN \* Walk returns the error, main will send on exit
                    /\ mainPc' = "exit"
                    /\ fatal' = fatal \cup {"walk"}
                    /\ UNCHANGED <<walkIdx, skipCounter>>
               ELSE /\ UNCHANGED fatal
                    /\ IF ~PassesFilters(path)
                       THEN NextEntry /\ UNCHANGED skipCounter
                       ELSE IF su # <<>>
                       THEN NextEntry /\ skipCounter' = skipCounter + 1
                       ELSE /\ mainPc' = EmitOrder[1]
                            /\ UNCHANGED <<walkIdx, skipCounter>>
    /\ UNCHANGED <<cfgVars, chanVars, wgVars, orderVars, wVars, iVars, exited,
                   printed, influxDb, recorded, taken, loaded, completed, notFound,
                   readFailed,
                   runVars>>

\* main's position after its send on channel ch has been received
AfterSend(ch) == IF ch = EmitOrder[1] THEN EmitOrder[2] ELSE "walk"
\* the walk not moving on after the two sends: the same key is emitted again
AfterSendIdxStay(ch) == walkIdx

AfterSendIdx(ch) == IF ch = EmitOrder[1] THEN walkIdx ELSE walkIdx + 1

\* filepath.Walk returned nil
WalkDone ==
    /\ Running
    /\ mainPc = "walk"
    /\ walkIdx > dirLen
    /\ mainPc' = "close_whisperFiles"
    /\ UNCHANGED <<cfgVars, skipUntil, skipCounter, walkIdx, chanVars, wgVars,
                   orderVars, wVars, iVars, exited, printed, influxDb, histVars,
                   runVars>>

\* main goes on to whisperWorkersWg.Wait() without close(whisperFiles)
CloseWhisperFilesForgotten ==
    /\ Running
    /\ mainPc = "close_whisperFiles"
    /\ mainPc' = "wait_whisper"
    /\ UNCHANGED <<cfgVars, skipUntil, skipCounter, walkIdx, chanVars, wgVars,
                   orderVars, wVars, iVars, exited, printed, influxDb, histVars,
                   runVars>>

\* close(whisperFiles)
CloseWhisperFiles ==
    /\ Running
    /\ mainPc = "close_whisperFiles"
    /\ whisperFilesClosed' = TRUE
    /\ mainPc' = "wait_whisper"
    /\ UNCHANGED <<cfgVars, skipUntil, skipCounter, walkIdx, influxSeriesClosed,
                   wgVars, orderVars, wVars, iVars, exited, printed, influxDb,
                   histVars, runVars>>

\* close(influxSeries) without the whisperWorkersWg.Wait() before it
CloseInfluxSeriesNoWait ==
    /\ Running
    /\ mainPc = "wait_whisper"
    /\ influxSeriesClosed' = TRUE
    /\ mainPc' = "wait_influx"
    /\ UNCHANGED <<cfgVars, skipUntil, skipCounter, walkIdx, whisperFilesClosed,
                   wgVars, orderVars, wVars, iVars, exited, printed, influxDb,
                   histVars, runVars>>

\* whisperWorkersWg.Wait() returns; close(influxSeries)
CloseInfluxSeries ==
    /\ Running
    /\ mainPc = "wait_whisper"
    /\ whisperWorkersWg = 0
    /\ influxSeriesClosed' = TRUE
    /\ mainPc' = "wait_influx"
    /\ UNCHANGED <<cfgVars, skipUntil, skipCounter, walkIdx, whisperFilesClosed,
                   wgVars, orderVars, wVars, iVars, exited, printed, influxDb,
                   histVars, runVars>>

\* influxWorkersWg.Wait() returns and main returns: the process ends, status 0
MainReturn ==
    /\ Running
    /\ mainPc = "wait_influx"
    /\ influxWorkersWg = 0
    /\ mainPc' = "returned"
    /\ exited' = <<0>>
    /\ UNCHANGED <<cfgVars, skipUntil, skipCounter, walkIdx, chanVars, wgVars,
                   orderVars, wVars, iVars, printed, influxDb, histVars, runVars>>

\* ---------------------------------------------------------------- keepOrder
\* the item put in front of the list instead
ListAppendFront(list, found) == <<found>> \o list

\* add item to end of linked list
ListAppend(list, found) == Append(list, found)

\* the head stripped out, whichever item finished
ListRemoveHead(list, finished) == IF list = <<>> THEN <<>> ELSE Tail(list)

\* an item that is not the head stripped out, the head never
ListRemoveInner(list, finished) ==
    IF list = <<>> THEN <<>>
    ELSE LET rest == Tail(list)
             hit  == {k \in 1..Len(rest) : rest[k] = finished}
         IN  IF hit = {} THEN list
             ELSE LET k == CHOOSE x \in hit : \A y \in hit : x <= y
                  IN  <<Head(list)>> \o SubSeq(rest, 1, k - 1)
                                    \o SubSeq(rest, k + 1, Len(rest))

\* strip the first item whose Path is finished out of the list
RECURSIVE ListRemove(_, _)
ListRemove(list, finished) ==
    IF list = <<>> THEN <<>>
    ELSE IF Head(list) = finished THEN Tail(list)
    ELSE <<Head(list)>> \o ListRemove(Tail(list), finished)

InList(list, path) == \E k \in 1..Len(list) : list[k] = path

\* the tail of the list printed instead of its head
CursorLast(list) == IF list # <<>> THEN <<list[Len(list)]>> ELSE <<>>

\* what the exit case prints: firstInProgress.Path, if the list is not empty
Cursor(list) == IF list # <<>> THEN <<Head(list)>> ELSE <<>>

\* case found := <-foundFiles, with main's send at line 264
Found ==
    /\ Running
    /\ keepOrderPc = "select"
    /\ mainPc = "foundFiles"
    /\ firstInProgress' = ListAppend(firstInProgress, Walk[walkIdx])
    /\ recorded' = Append(recorded, Walk[walkIdx])
    /\ mainPc' = AfterSend("foundFiles")
    /\ walkIdx' = AfterSendIdx("foundFiles")
    /\ UNCHANGED <<cfgVars, skipUntil, skipCounter, chanVars, wgVars,
                   keepOrderPc, code, wVars, iVars, exited, printed, influxDb,
                   taken, loaded, completed, notFound, readFailed, fatal,
                   runVars>>

\* case finished := <-finishedFiles, with the send at line 151 of an influx
\* worker in local state i
Finished(i) ==
    /\ Running
    /\ keepOrderPc = "select"
    /\ i.pc = "finishedFiles"
    /\ LET finished == i.serie.Path IN
        /\ firstInProgress' = ListRemove(firstInProgress, finished)
        /\ completed' = completed (+) SetToBag({finished})
        /\ notFound' = IF InList(firstInProgress, finished)
                       THEN notFound ELSE notFound \cup {finished}
    /\ influxPool' = Step(influxPool, i, InfluxIdle)
    /\ UNCHANGED <<cfgVars, mainVars, chanVars, wgVars, keepOrderPc, code, wVars,
                   exited, printed, influxDb, recorded, taken, loaded,
                   readFailed, fatal, runVars>>

\* case code := <-exit, the sender being main (line 348)
ExitFromMain ==
    /\ Running
    /\ keepOrderPc = "select"
    /\ mainPc = "exit"
    /\ code' = 2
    /\ keepOrderPc' = "print"
    /\ mainPc' = "close_whisperFiles"
    /\ UNCHANGED <<cfgVars, skipUntil, skipCounter, walkIdx, chanVars, wgVars,
                   firstInProgress, wVars, iVars, exited, printed, influxDb,
                   histVars, runVars>>

\* case code := <-exit, the sender being a whisper worker in local state w
\* (lines 172-225)
ExitFromWhisper(w) ==
    /\ Running
    /\ keepOrderPc = "select"
    /\ w.pc = "exit"
    /\ code' = 2
    /\ keepOrderPc' = "print"
    /\ whisperPool' = Step(whisperPool, w, [w EXCEPT !.pc = "resume"])
    /\ UNCHANGED <<cfgVars, mainVars, chanVars, wgVars, firstInProgress,
                   iVars, exited, printed, influxDb, histVars, runVars>>

\* case code := <-exit, the sender being an influx worker in local state i
\* (line 143)
ExitFromInflux(i) ==
    /\ Running
    /\ keepOrderPc = "select"
    /\ i.pc = "exit"
    /\ code' = 2
    /\ keepOrderPc' = "print"
    /\ influxPool' = Step(influxPool, i, [i EXCEPT !.pc = "sleep"])
    /\ UNCHANGED <<cfgVars, mainVars, chanVars, wgVars, firstInProgress, wVars,
                   exited, printed, influxDb, histVars, runVars>>

\* the exit case prints the resume cursor
PrintCursor ==
    /\ Running
    /\ keepOrderPc = "print"
    /\ printed' = Cursor(firstInProgress)
    /\ keepOrderPc' = "os.Exit"
    /\ UNCHANGED <<cfgVars, mainVars, chanVars, wgVars, firstInProgress, code,
                   wVars, iVars, exited, influxDb, histVars, runVars>>

\* os.Exit(code)
OsExit ==
    /\ Running
    /\ keepOrderPc = "os.Exit"
    /\ exited' = <<code>>
    /\ keepOrderPc' = "exited"
    /\ UNCHANGED <<cfgVars, mainVars, chanVars, wgVars, firstInProgress, code,
                   wVars, iVars, printed, influxDb, histVars, runVars>>

\* ------------------------------------------------------------ whisperWorker
\* path := <-whisperFiles, with main's send at line 265
TakeFile ==
    /\ Running
    /\ mainPc = "whisperFiles"
    /\ ~whisperFilesClosed
    /\ BagIn(WhisperIdle, whisperPool)
    /\ whisperPool' = Step(whisperPool, WhisperIdle,
                           [WhisperIdle EXCEPT !.pc = "read", !.path = Walk[walkIdx]])
    /\ mainPc' = AfterSend("whisperFiles")
    /\ walkIdx' = AfterSendIdx("whisperFiles")
    /\ taken' = taken (+) SetToBag({Walk[walkIdx]})
    /\ UNCHANGED <<cfgVars, skipUntil, skipCounter, chanVars, wgVars, orderVars,
                   iVars, exited, printed, influxDb, recorded, loaded, completed,
                   notFound, readFailed, fatal, runVars>>

\* os.Open, whisper.OpenWhisper or w.FetchUntil returned an error: continue
\* with the next path, or send on exit
ReadError(w, stage) ==
    /\ readFailed' = readFailed \cup {w.path}
    /\ IF skipWhisperErrors
       THEN /\ whisperPool' = Step(whisperPool, w, WhisperIdle)
            /\ UNCHANGED fatal
       ELSE /\ whisperPool' = Step(whisperPool, w,
                                   [w EXCEPT !.pc = "exit", !.stage = stage])
            /\ fatal' = fatal \cup {"read"}

\* The loop over the archives, from index i down to 0, with the dumps in fails
\* returning an error: where it stops ("exit": blocked on the send at line
\* 203; "influxSeries": past the loop, at the send of line 234) and the points
\* appended so far.
RECURSIVE DumpLoop(_, _, _, _)
DumpLoop(path, i, fails, points) ==
    IF i < 0 THEN [pc |-> "influxSeries", arch |-> 0, points |-> points]
    ELSE IF i \in fails
    THEN IF skipWhisperErrors
         THEN DumpLoop(path, i - 1, fails, points)
         ELSE [pc |-> "exit", arch |-> i, points |-> points]
    ELSE DumpLoop(path, i - 1, fails, points \o NonZero(DumpArchive(path, i)))

\* run the archive loop from index i with the points collected so far
Dump(w, i, points) ==
    \E fails \in SUBSET (0..i) :
        LET r == DumpLoop(w.path, i, fails, points) IN
        /\ whisperPool' = Step(whisperPool, w,
                [w EXCEPT !.pc = r.pc, !.stage = "dump", !.arch = r.arch,
                          !.points = r.points])
        /\ readFailed' = IF fails = {} THEN readFailed
                         ELSE readFailed \cup {w.path}
        /\ fatal' = IF r.pc = "exit" THEN fatal \cup {"read"} ELSE fatal

\* the body of the range loop from os.Open to the first channel send
ReadFile(w) ==
    /\ Running
    /\ w.pc = "read"
    /\ \/ ReadError(w, "open")
       \/ ReadError(w, "header")
       \/ all /\ Dump(w, NumArchives - 1, <<>>)
       \/ /\ ~all
          /\ whisperPool' = Step(whisperPool, w,
                [w EXCEPT !.pc = "influxSeries", !.stage = "fetch",
                          !.points = FetchUntil(w.path)])
          /\ UNCHANGED <<readFailed, fatal>>
       \/ ~all /\ ReadError(w, "fetch")
    /\ UNCHANGED <<cfgVars, mainVars, chanVars, wgVars, orderVars, iVars, exited,
                   printed, influxDb, recorded, taken, loaded, completed,
                   notFound, runVars>>

\* The worker goes on after its send on exit was received (there is no return
\* after exit <- 2).  After a failed os.Open, fd is nil, OpenWhisper fails and
\* the worker is at the next send on exit.  After a failed FetchUntil the
\* worker is at the send on influxSeries with no points.  After a failed
\* DumpArchive the archive loop goes on.
Resume(w) ==
    /\ Running
    /\ w.pc = "resume"
    /\ w.stage \in {"open", "dump", "fetch"}
    /\ \/ /\ w.stage = "open"
          /\ whisperPool' = Step(whisperPool, w,
                                 [w EXCEPT !.pc = "exit", !.stage = "header"])
          /\ UNCHANGED <<readFailed, fatal>>
       \/ /\ w.stage = "fetch"
          /\ whisperPool' = Step(whisperPool, w,
                                 [w EXCEPT !.pc = "influxSeries", !.points = <<>>])
          /\ UNCHANGED <<readFailed, fatal>>
       \/ /\ w.stage = "dump"
          /\ Dump(w, w.arch - 1, w.points)
    /\ UNCHANGED <<cfgVars, mainVars, chanVars, wgVars, orderVars, iVars, exited,
                   printed, influxDb, recorded, taken, loaded, completed,
                   notFound, runVars>>

\* After a failed OpenWhisper, w is nil: w.Header (line 190) or w.FetchUntil
\* (line 217) dereferences it, and the runtime ends the process with status 2.
NilPanic(w) ==
    /\ Running
    /\ w.pc = "resume"
    /\ w.stage = "header"
    /\ exited' = <<2>>
    /\ whisperPool' = Step(whisperPool, w, [w EXCEPT !.pc = "panic"])
    /\ UNCHANGED <<cfgVars, mainVars, chanVars, wgVars, orderVars, iVars,
                   printed, influxDb, histVars, runVars>>

\* influxSeries with a buffer: the send returns with no influx worker receiving
SendSerieBuffered(w) ==
    /\ Running
    /\ w.pc = "influxSeries"
    /\ ~influxSeriesClosed
    /\ whisperPool' = Step(whisperPool, w, WhisperIdle)
    /\ UNCHANGED <<cfgVars, mainVars, chanVars, wgVars, orderVars, iVars, exited,
                   printed, influxDb, histVars, runVars>>

\* influxSeries <- serie, with the receive at line 113 of an idle influx worker
SendSerie(w) ==
    /\ Running
    /\ w.pc = "influxSeries"
    /\ ~influxSeriesClosed
    /\ BagIn(InfluxIdle, influxPool)
    /\ influxPool' = Step(influxPool, InfluxIdle,
            [pc |-> "write", serie |-> [Path |-> w.path, Points |-> w.points]])
    /\ whisperPool' = Step(whisperPool, w, WhisperIdle)
    /\ loaded' = loaded (+) SetToBag({w.path})
    /\ UNCHANGED <<cfgVars, mainVars, chanVars, wgVars, orderVars, exited,
                   printed, influxDb, recorded, taken, completed, notFound,
                   readFailed, fatal, runVars>>

\* whisperFiles is closed: the range loop ends, whisperWorkersWg.Done()
WhisperDone ==
    /\ Running
    /\ BagIn(WhisperIdle, whisperPool)
    /\ whisperFilesClosed
    /\ whisperPool' = Step(whisperPool, WhisperIdle, [WhisperIdle EXCEPT !.pc = "done"])
    /\ whisperWorkersWg' = whisperWorkersWg - 1
    /\ UNCHANGED <<cfgVars, mainVars, chanVars, influxWorkersWg, orderVars,
                   iVars, exited, printed, influxDb, histVars, runVars>>

\* ------------------------------------------------------------- influxWorker
\* the series name: the path under whisperDir, without .wsp, / mapped to .
SeriesName(path) ==
    Replace(TrimSuffix(SubSeq(path, Len(whisperDir) + 2, Len(path)), Wsp),
            "/", ".")

\* the client.BatchPoints built from an abstractSerie
BatchPoints(serie) ==
    [Points |-> [k \in 1..Len(serie.Points) |->
                    [Measurement |-> SeriesName(serie.Path),
                     value |-> serie.Points[k].Value,
                     Time |-> serie.Points[k].Timestamp]]]

\* a failed write treated as committed
WriteErrorCommits == "finishedFiles"

\* a failed write that gives the batch up for the next one
WriteErrorDrops == IF skipInfluxErrors THEN "recv" ELSE "exit"

\* where the worker goes when influxClient.Write returned an error
WriteErrorPc == IF skipInfluxErrors THEN "backoff" ELSE "exit"

\* influxClient.Write(influxBatchPoints)
Write(i) ==
    /\ Running
    /\ i.pc = "write"
    /\ \E ok \in BOOLEAN :
        IF ok
        THEN /\ influxDb' = influxDb (+)
                    SetToBag({[Path |-> i.serie.Path,
                               Batch |-> BatchPoints(i.serie)]})
             /\ influxPool' = Step(influxPool, i, [i EXCEPT !.pc = "finishedFiles"])
             /\ UNCHANGED fatal
        ELSE /\ influxPool' = Step(influxPool, i, [i EXCEPT !.pc = WriteErrorPc])
             /\ fatal' = IF WriteErrorPc = "exit" THEN fatal \cup {"write"}
                         ELSE fatal
             /\ UNCHANGED influxDb
    /\ UNCHANGED <<cfgVars, mainVars, chanVars, wgVars, orderVars, wVars,
                   exited, printed, recorded, taken, loaded, completed, notFound,
                   readFailed,
                   runVars>>

\* time.Sleep(5s), then the for loop writes the same batch again
Backoff(i) ==
    /\ Running
    /\ i.pc = "backoff"
    /\ influxPool' = Step(influxPool, i, [i EXCEPT !.pc = "write"])
    /\ UNCHANGED <<cfgVars, mainVars, chanVars, wgVars, orderVars, wVars,
                   exited, printed, influxDb, histVars, runVars>>

\* time.Sleep(100s) after the send on exit; the code then falls through to the
\* send on finishedFiles
Sleep(i) ==
    /\ Running
    /\ i.pc = "sleep"
    /\ influxPool' = Step(influxPool, i, [i EXCEPT !.pc = "finishedFiles"])
    /\ UNCHANGED <<cfgVars, mainVars, chanVars, wgVars, orderVars, wVars,
                   exited, printed, influxDb, histVars, runVars>>

\* influxSeries is closed: the range loop ends, influxWorkersWg.Done()
InfluxDone ==
    /\ Running
    /\ BagIn(InfluxIdle, influxPool)
    /\ influxSeriesClosed
    /\ influxPool' = Step(influxPool, InfluxIdle, [InfluxIdle EXCEPT !.pc = "done"])
    /\ influxWorkersWg' = influxWorkersWg - 1
    /\ UNCHANGED <<cfgVars, mainVars, chanVars, whisperWorkersWg, orderVars,
                   wVars, exited, printed, influxDb, histVars, runVars>>

\* ------------------------------------------------------------ specification
Next ==
    \/ Process
    \/ WalkDone
    \/ CloseWhisperFiles
    \/ CloseInfluxSeries
    \/ MainReturn
    \/ Found
    \/ \E i \in Workers(influxPool) : Finished(i)
    \/ ExitFromMain
    \/ \E w \in Workers(whisperPool) : ExitFromWhisper(w)
    \/ \E i \in Workers(influxPool) : ExitFromInflux(i)
    \/ PrintCursor
    \/ OsExit
    \/ TakeFile
    \/ \E w \in Workers(whisperPool) : ReadFile(w)
    \/ \E w \in Workers(whisperPool) : Resume(w)
    \/ \E w \in Workers(whisperPool) : NilPanic(w)
    \/ \E w \in Workers(whisperPool) : SendSerie(w)
    \/ WhisperDone
    \/ \E i \in Workers(influxPool) : Write(i)
    \/ \E i \in Workers(influxPool) : Backoff(i)
    \/ \E i \in Workers(influxPool) : Sleep(i)
    \/ InfluxDone

Spec == Init /\ [][Next]_vars

\* ------------------------------------------------------------------ resuming
\* The operator starts the program again over the same directory with the same
\* flags and -skipUntil set to the resume cursor that the run that ended has
\* printed (flag.StringVar(&skipUntil, ...), line 296).
Restart ==
    /\ run = 1
    /\ exited # <<>>
    /\ printed # <<>>
    /\ run' = 2
    /\ firstRun' = [skipUntil |-> skipUntilFlag, cursor |-> printed[1],
                    completed |-> BagToSet(completed)]
    /\ skipUntilFlag' = printed[1]
    /\ skipUntil' = printed[1]
    /\ skipCounter' = 0
    /\ mainPc' = "walk"
    /\ walkIdx' = 1
    /\ whisperFilesClosed' = FALSE
    /\ influxSeriesClosed' = FALSE
    /\ whisperWorkersWg' = whisperWorkers
    /\ influxWorkersWg' = influxWorkers
    /\ keepOrderPc' = "select"
    /\ firstInProgress' = <<>>
    /\ code' = 0
    /\ whisperPool' = Copies(WhisperIdle, whisperWorkers)
    /\ influxPool' = Copies(InfluxIdle, influxWorkers)
    /\ exited' = <<>>
    /\ printed' = <<>>
    /\ recorded' = <<>>
    /\ taken' = EmptyBag
    /\ loaded' = EmptyBag
    /\ completed' = EmptyBag
    /\ notFound' = {}
    /\ readFailed' = {}
    /\ fatal' = {}
    /\ influxDb' = EmptyBag
    /\ UNCHANGED cfgVars

\* the flag settings of the runs that are resumed
ResumeConfigs ==
    {Flags(FALSE, FALSE, FALSE), Flags(TRUE, FALSE, FALSE),
     Flags(FALSE, TRUE, TRUE),
     [Flags(TRUE, TRUE, FALSE) EXCEPT !.skipUntil = Walk[2]]}

InitResume == Init /\ \E c \in ResumeConfigs :
    /\ skipWhisperErrors = c.skipWhisperErrors
    /\ skipInfluxErrors = c.skipInfluxErrors
    /\ all = c.all
    /\ include = c.include
    /\ skipUntilFlag = c.skipUntil

NextResume == Next \/ Restart

SpecResume == InitResume /\ [][NextResume]_vars

\* ------------------------------------------------------- the long directory
\* Runs with fewWorkers goroutines in each pool over a directory of LongWalkLen
\* entries, one of them no archive: more units than the workers and main can
\* hold between them.  The flag settings: every failure skipped, every failure
\* fatal, each filter, the skip cursor on an archive, on the entry that is no
\* archive, and together with the exclude filter.
Filtered(inc, exc, su) ==
    [Flags(TRUE, TRUE, FALSE) EXCEPT !.include = inc, !.exclude = exc,
                                     !.skipUntil = su]

LongConfigs ==
    {Flags(TRUE, TRUE, FALSE), Flags(FALSE, FALSE, FALSE),
     Filtered(<<"x">>, <<>>, <<>>), Filtered(<<>>, <<"b">>, <<>>),
     Filtered(<<>>, <<>>, Walk[2]), Filtered(<<>>, <<>>, Walk[4]),
     Filtered(<<>>, <<"b">>, Walk[3])}

InitLong ==
    \E c \in LongConfigs :
        /\ skipWhisperErrors = c.skipWhisperErrors
        /\ skipInfluxErrors = c.skipInfluxErrors
        /\ all = c.all
        /\ include = c.include
        /\ exclude = c.exclude
        /\ dirLen = LongWalkLen
        /\ StartWorkers(c.skipUntil, fewWorkers, fewWorkers)
        /\ skipUntilFlag = c.skipUntil
        /\ run = 1
        /\ firstRun = <<>>

SpecLong == InitLong /\ [][Next]_vars

\* ---------------------------------------------------------- the clean runs
\* The runs in which filepath.Walk reports no error, no open and no read fails
\* and no write failure is fatal; a write may fail and be retried.  The Go
\* scheduler runs every goroutine that can take a step (weak fairness of the
\* steps), and a write that is retried again and again is accepted in the end
\* (strong fairness of the accepted writes).
NextClean == Next /\ UNCHANGED <<readFailed, fatal>>

WriteAccepted == NextClean /\ influxDb' # influxDb

SpecClean ==
    /\ Init
    /\ [][NextClean]_vars
    /\ WF_vars(NextClean)
    /\ SF_vars(WriteAccepted)

\* ------------------------------------------------------------------ history
Recorded == {recorded[n] : n \in 1..Len(recorded)}
Completed == BagToSet(completed)
InProgress == {firstInProgress[n] : n \in 1..Len(firstInProgress)}
\* the keys of the batches InfluxDB accepted
Written == {b.Path : b \in BagToSet(influxDb)}
\* the keys held by an influx worker
InLoad == {i.serie.Path : i \in Workers(influxPool)} \ {<<>>}
\* the keys held by a whisper worker
InExtract == {w.path : w \in Workers(whisperPool)} \ {<<>>}

\* --------------------------------------------------------------------- C1
\* C1: the in-progress list holds its members in the order in which they were
\* received on foundFiles, whatever the order of the completions.
C1_RecordOrder ==
    \A a, b \in 1..Len(firstInProgress) :
        a < b =>
            \E m, n \in 1..Len(recorded) :
                /\ m < n
                /\ recorded[m] = firstInProgress[a]
                /\ recorded[n] = firstInProgress[b]

\* a key recorded between two members has completed ahead of the older one
C1_Witness ==
    /\ Len(firstInProgress) >= 2
    /\ \E m, n, o \in 1..Len(recorded) :
        /\ m < n /\ n < o
        /\ recorded[m] = firstInProgress[1]
        /\ recorded[n] \in Completed
        /\ recorded[o] = firstInProgress[2]

\* --------------------------------------------------------------------- C2
\* C2: the head of the in-progress list is the earliest recorded key that has
\* not completed: every key recorded before it has had its completion
\* processed by keepOrder.
C2_ResumeSafety ==
    firstInProgress # <<>> =>
        \E n \in 1..Len(recorded) :
            /\ recorded[n] = Head(firstInProgress)
            /\ recorded[n] \notin Completed
            /\ \A m \in 1..(n - 1) : recorded[m] \in Completed

\* the head is not the first key recorded, and a later key has completed too
C2_Witness ==
    /\ firstInProgress # <<>>
    /\ Len(recorded) >= 3
    /\ Head(firstInProgress) = recorded[2]
    /\ recorded[1] \in Completed
    /\ recorded[3] \in Completed

\* --------------------------------------------------------------------- C3
\* C3: the members of the in-progress list are the recorded keys whose
\* completion has not been processed; no key is in the list twice.
C3_Membership ==
    /\ InProgress = Recorded \ Completed
    /\ Cardinality(InProgress) = Len(firstInProgress)

\* some keys have completed, the first among them, and others are in progress
C3_Witness ==
    /\ Len(recorded) >= 3
    /\ recorded[1] \in Completed
    /\ Len(firstInProgress) = 2

\* --------------------------------------------------------------------- C4
\* the -skipUntil cursor su suppresses path: su is not met up to path
Suppresses(su, path) ==
    /\ su # <<>>
    /\ \A j \in 1..WalkPos(path) : Walk[j] # su

\* a key the first run could emit: it passes the filters and the first run's
\* own cursor did not suppress it
EligibleFirst(path) ==
    PassesFilters(path) /\ ~Suppresses(firstRun.skipUntil, path)

\* C4: in a run resumed with the cursor the first run printed, every entry the
\* walk has passed that was eligible in the first run and that the first run
\* did not complete has been handed over (the cursor key included); the keys
\* not handed over were completed by the first run or are not eligible.
C4_ResumeEmitsUnfinished ==
    run = 2 =>
        /\ firstRun.cursor \notin firstRun.completed
        /\ \A n \in 1..WalkLen :
            (n < walkIdx /\ EligibleFirst(Walk[n])
                /\ Walk[n] \notin firstRun.completed) => Walk[n] \in Recorded

\* the resumed run has walked everything: it suppressed a completed key,
\* handed over the cursor key and a key after it that the first run completed
C4_Witness ==
    /\ run = 2
    /\ walkIdx > dirLen
    /\ skipCounter >= 1
    /\ Len(recorded) >= 2
    /\ recorded[1] = firstRun.cursor
    /\ recorded[2] \in firstRun.completed
    /\ Walk[1] \in firstRun.completed

\* --------------------------------------------------------------------- C5
\* C5: a key that main offers on whisperFiles, or that a worker holds, has been
\* received on foundFiles before; a completion finds its key in the list.
C5_RecordBeforeWork ==
    /\ mainPc = "whisperFiles" => Walk[walkIdx] \in Recorded
    /\ InExtract \subseteq Recorded
    /\ InLoad \subseteq Recorded
    /\ \A i \in Workers(influxPool) :
           i.pc = "finishedFiles" => InList(firstInProgress, i.serie.Path)
    /\ notFound = {}

\* a completion has been processed while a later key is still with a worker
C5_Witness ==
    /\ Completed # {}
    /\ notFound = {}
    /\ InExtract # {}
    /\ \E i \in Workers(influxPool) : i.pc = "finishedFiles"

\* --------------------------------------------------------------------- C6
\* C6: with skipWhisperErrors, a key for which an open or a read failed (a
\* single DumpArchive included) is never handed to an influx worker, never
\* written, never completed, and stays in the in-progress list.
C6_FailedReadAbandoned ==
    skipWhisperErrors =>
        \A path \in readFailed :
            /\ path \notin InLoad
            /\ path \notin Written
            /\ path \notin Completed
            /\ InList(firstInProgress, path)

\* --------------------------------------------------------------------- C7
\* C7: a key whose completion keepOrder has processed is a key of a batch that
\* InfluxDB accepted.
C7_CompletedWasWritten == Completed \subseteq Written

\* the fatal write path: the send on exit was received, the worker slept and
\* is at the send on finishedFiles with a batch that was never accepted
C7_Witness ==
    /\ ~skipInfluxErrors
    /\ keepOrderPc # "select"
    /\ Completed # {}
    /\ \E i \in Workers(influxPool) :
        /\ i.pc = "finishedFiles"
        /\ i.serie.Path \notin Written

\* --------------------------------------------------------------------- C8
\* C8: with skipInfluxErrors, an influx worker that is writing a batch or
\* backing off holds the same batch after every step, until a write of it is
\* accepted and it is at the send on finishedFiles; no influx worker sends on
\* exit; no key is written or completed twice.
C8_RetryStep ==
    \A i \in Workers(influxPool) :
        i.pc \in {"write", "backoff"} =>
            \E j \in Workers(influxPool') :
                /\ j.serie = i.serie
                /\ \/ j.pc \in {"write", "backoff"}
                   \/ /\ j.pc = "finishedFiles"
                      /\ i.pc = "write"
                      /\ i.serie.Path \in Written'

C8_NoExitNoRepeat ==
    /\ \A i \in Workers(influxPool) : i.pc \notin {"exit", "sleep"}
    /\ "write" \notin fatal
    /\ \A path \in Completed : CopiesIn(path, completed) = 1
    /\ \A b \in BagToSet(influxDb) : CopiesIn(b, influxDb) = 1

C9_ExitStatus ==
    /\ exited = <<0>> => fatal = {}
    /\ (exited # <<>> /\ fatal # {}) => exited = <<2>>

\* -------------------------------------------------------------------- C10
\* C10: once keepOrder has received an exit request no record and no
\* completion is applied; what is printed is the head of the list; when the
\* process has ended after an exit request, the head of the list (if any) has
\* been printed as the resume cursor and the status is the requested code.
C10_Frozen ==
    keepOrderPc # "select" => UNCHANGED <<firstInProgress, recorded, completed>>

C10_Reported ==
    /\ printed # <<>> => printed = Cursor(firstInProgress)
    /\ (keepOrderPc # "select" /\ exited # <<>>) =>
           /\ printed = Cursor(firstInProgress)
           /\ exited = <<code>>

\* C10: both parts together, the frozen list and the report before the end
C10_CursorThenExit == [][C10_Frozen]_vars /\ []C10_Reported

\* -------------------------------------------------------------------- C11
Taken == BagToSet(taken)
Loaded == BagToSet(loaded)

\* a goroutine is blocked in a send on a channel that was closed
SendOnClosed ==
    \/ whisperFilesClosed /\ mainPc = "whisperFiles"
    \/ influxSeriesClosed /\ \E w \in Workers(whisperPool) : w.pc = "influxSeries"

\* C11: normal shutdown is an ordered drain.  whisperFiles is closed only after
\* filepath.Walk returned; influxSeries is closed only after every whisper
\* worker has exited; the process ends with status 0 only after every influx
\* worker has exited, and then no worker holds a key or a batch and every key
\* that was handed to an influx worker has been received on finishedFiles.  No
\* goroutine ever sends on a closed channel.
C11_OrderedDrain ==
    /\ whisperFilesClosed =>
            mainPc \in {"wait_whisper", "wait_influx", "returned"}
    /\ influxSeriesClosed =>
            /\ whisperFilesClosed
            /\ whisperWorkersWg = 0
            /\ \A w \in Workers(whisperPool) : w.pc = "done"
    /\ exited = <<0>> =>
            /\ influxSeriesClosed
            /\ influxWorkersWg = 0
            /\ \A i \in Workers(influxPool) : i.pc = "done" /\ i.serie = NoSerie
            /\ InExtract = {} /\ InLoad = {}
            /\ Loaded \subseteq Completed
            /\ Taken \subseteq Recorded
    /\ ~SendOnClosed

\* a run that ended with status 0 after three batches went through both pools
C11_Witness ==
    /\ exited = <<0>>
    /\ Cardinality(Loaded) = 3
    /\ Cardinality(Written) = 3

\* -------------------------------------------------------------------- C12
\* the entries for which process has returned nil
Visited == {n \in 1..dirLen : n < walkIdx}

\* the skip cursor is still active after process has looked at entry n: the run
\* was started with one and no entry up to n is equal to it
CursorActiveAt(n) ==
    /\ skipUntilFlag # <<>>
    /\ \A j \in 1..n : Walk[j] # skipUntilFlag

\* the four conditions of the claim for entry n
ShouldEmit(n) ==
    /\ HasSuffix(Walk[n], <<".", "w", "s", "p">>)
    /\ exclude = <<>> \/ ~Contains(Walk[n], exclude)
    /\ Contains(Walk[n], include)
    /\ ~CursorActiveAt(n)

\* C12: an entry the walk has visited was handed to keepOrder and to the
\* whisper workers if and only if it ends in .wsp, does not contain the exclude
\* substring when one is set, contains the include substring and the skip cursor
\* was not active when it was visited; no other entry is ever handed over; the
\* keys are handed over in traversal order, each at most once.
C12_Filtering ==
    /\ \A n \in Visited :
            (Walk[n] \in Recorded /\ Walk[n] \in Taken) <=> ShouldEmit(n)
    /\ \A n \in 1..dirLen :
            Walk[n] \in Recorded \cup Taken => n <= walkIdx /\ ShouldEmit(n)
    /\ \A j, k \in 1..Len(recorded) :
            j < k => WalkPos(recorded[j]) < WalkPos(recorded[k])
    /\ \A p \in Taken : CopiesIn(p, taken) = 1
    /\ Taken \subseteq Recorded
    /\ \A p \in Recorded \ Taken : p = recorded[Len(recorded)]

\* the walk is over, with the cursor and the exclude filter set: the entries
\* before the cursor and the excluded one were not handed over, later ones were
C12_Witness ==
    /\ walkIdx > dirLen
    /\ exclude # <<>>
    /\ skipUntilFlag # <<>>
    /\ Cardinality(Taken) = 2
    /\ \E n \in Visited : HasSuffix(Walk[n], Wsp) /\ Walk[n] \notin Recorded

\* -------------------------------------------------------------------- C13
\* entry n is a unit: an archive file
IsUnit(n) == HasSuffix(Walk[n], <<".", "w", "s", "p">>)

\* entry n passes the suffix, exclude and include filters
FilterPasses(n) ==
    /\ IsUnit(n)
    /\ exclude = <<>> \/ ~Contains(Walk[n], exclude)
    /\ Contains(Walk[n], include)

\* C13 as stated: the suppressed count is the number of units visited before
\* the cursor key, every one of them being suppressed and counted.
C13_CountsEveryUnit ==
    skipCounter = Cardinality({n \in Visited : IsUnit(n) /\ CursorActiveAt(n)})

\* the cursor is the flag until the entry equal to it is visited, empty after
C13_Cursor ==
    /\ skipUntil \in {<<>>, skipUntilFlag}
    /\ skipUntil # <<>> => \A n \in Visited : Walk[n] # skipUntilFlag
    /\ (skipUntil = <<>> /\ skipUntilFlag # <<>>) =>
            \E n \in 1..dirLen : n <= walkIdx /\ Walk[n] = skipUntilFlag

\* no unit visited while the cursor was active is handed over; the entry equal
\* to the cursor and the later ones are handed over when they pass the filters
C13_Suppressed ==
    \A n \in Visited :
        IF CursorActiveAt(n) THEN Walk[n] \notin Recorded \cup Taken
        ELSE Walk[n] \in Recorded <=> FilterPasses(n)

\* the count is the number of units visited while the cursor was active that
\* pass the suffix, exclude and include filters
C13_Counted ==
    skipCounter = Cardinality({n \in Visited : FilterPasses(n) /\ CursorActiveAt(n)})

\* C13, amended: the skip cursor is one-shot.  While it is active no visited
\* unit is handed over, and the units that pass the suffix, exclude and include
\* filters are counted, the others are not; the entry equal to the cursor
\* disables it for the rest of the walk, it is never enabled again, and that
\* entry and the later ones go through the filters; the suppressed count is the
\* number of filter-passing units visited before the cursor key.
C13_SkipCursor ==
    /\ [](C13_Cursor /\ C13_Suppressed /\ C13_Counted)
    /\ [][skipUntil = <<>> => skipUntil' = <<>>]_vars

\* the walk has passed the cursor key, one unit before it was counted and one,
\* rejected by the exclude filter, was not
C13_Witness ==
    /\ skipUntilFlag # <<>>
    /\ skipUntil = <<>>
    /\ exclude # <<>>
    /\ skipCounter = 1
    /\ Cardinality({n \in Visited : IsUnit(n) /\ CursorActiveAt(n)}) = 2
    /\ skipUntilFlag \in Taken

\* -------------------------------------------------------------------- C14
\* the key main has sent on foundFiles and is blocked sending on whisperFiles
HeldByMain == IF mainPc = "whisperFiles" THEN {Walk[walkIdx]} ELSE {}

\* the keys emitted and not completed
Outstanding == Recorded \ Completed

\* what main and the workers can hold between them: one key each
HoldLimit == BagCardinality(whisperPool) + BagCardinality(influxPool) + 1

\* no write has been accepted and every influx worker holds a batch whose
\* write fails and is retried
LoadBlocked ==
    /\ skipInfluxErrors
    /\ Written = {}
    /\ \A i \in Workers(influxPool) : i.pc \in {"write", "backoff"}

\* C14 as stated: while no influx worker makes progress, the number of units
\* emitted and not completed is at most a constant of the two worker counts
\* (one unit per worker and one held by main).
C14_OutstandingBounded == LoadBlocked => Cardinality(Outstanding) <= HoldLimit

\* C14, amended: every unit that was emitted, is not completed and had no
\* failed read is held by main, blocked in its send on whisperFiles, by one
\* whisper worker or by one influx worker, so there are at most
\* whisperWorkers + influxWorkers + 1 of them, whether or not the influx
\* workers make progress; units abandoned after a skipped read failure are not
\* held by anyone and are not bounded by the worker counts.
C14_Backpressure ==
    /\ (Outstanding \ readFailed) \subseteq (HeldByMain \cup InExtract \cup InLoad)
    /\ Cardinality(Outstanding \ readFailed) <= HoldLimit

\* the influx worker retries a batch, the whisper worker is blocked sending the
\* next one, main is blocked sending a third key, and a fourth unit waits
C14_Witness ==
    /\ LoadBlocked
    /\ \A w \in Workers(whisperPool) : w.pc = "influxSeries"
    /\ mainPc = "whisperFiles"
    /\ readFailed = {}
    /\ Cardinality(Outstanding) = HoldLimit
    /\ \E n \in 1..dirLen : n > walkIdx /\ IsUnit(n)

\* -------------------------------------------------------------------- C15
\* the written slots of resolution i of an archive file, in slot order
WrittenSlots(path, i) ==
    LET d == DumpArchive(path, i)
        RECURSIVE From(_)
        From(k) == IF k > Len(d) THEN <<>>
                   ELSE IF d[k].Timestamp = 0 THEN From(k + 1)
                   ELSE <<d[k]>> \o From(k + 1)
    IN  From(1)

\* the written slots of the resolutions i, i - 1, ... 0, one after the other
RECURSIVE CoarsestFirst(_, _)
CoarsestFirst(path, i) ==
    IF i < 0 THEN <<>> ELSE WrittenSlots(path, i) \o CoarsestFirst(path, i - 1)

\* the batches that were handed to an influx worker and are not completed
HandedOver == {i.serie : i \in Workers(influxPool)} \ {NoSerie}

\* in batch b, the point of the finer resolution comes after the point of the
\* coarser one wherever both resolutions have a point of the same timestamp
FinerLater(b) ==
    \A fine, coarse \in 0..(NumArchives - 1) :
        fine < coarse =>
            \A p \in {DumpArchive(b.Path, fine)[k] :
                            k \in 1..Len(DumpArchive(b.Path, fine))} :
            \A q \in {DumpArchive(b.Path, coarse)[k] :
                            k \in 1..Len(DumpArchive(b.Path, coarse))} :
                (p.Timestamp = q.Timestamp /\ p.Timestamp # 0) =>
                    \E j, k \in 1..Len(b.Points) :
                        j < k /\ b.Points[j] = q /\ b.Points[k] = p

\* C15: in full-dump mode the batch of a unit whose dumps all succeeded is the
\* dumps of all its resolutions one after the other, from the highest index
\* (coarsest) down to index 0 (finest), without the points of timestamp 0; for
\* a timestamp present in two resolutions the point of the finer one comes
\* later; no batch handed to an influx worker holds a point of timestamp 0.
C15_FullDump ==
    \A b \in HandedOver :
        /\ \A k \in 1..Len(b.Points) : b.Points[k].Timestamp # 0
        /\ (all /\ b.Path \notin readFailed) =>
                /\ b.Points = CoarsestFirst(b.Path, NumArchives - 1)
                /\ FinerLater(b)

\* a full dump of two resolutions is with an influx worker: the one written
\* point of the coarse resolution, then the two of the fine one
C15_Witness ==
    \E b \in HandedOver :
        /\ all
        /\ b.Path \notin readFailed
        /\ Len(b.Points) = 3
        /\ b.Points[1].Timestamp = b.Points[2].Timestamp

\* -------------------------------------------------------------------- C16
\* the points of a unit in the source, as the mode of the run reads them
SourcePoints(path) ==
    IF all THEN CoarsestFirst(path, NumArchives - 1) ELSE FetchUntil(path)

\* the batches InfluxDB accepted for a key
BatchesOf(path) == {b \in BagToSet(influxDb) : b.Path = path}

\* the end-to-end property for the runs that skip read failures, the units
\* with a failed read being c and the completed others a and b
C16_Holds ==
    /\ \A c \in readFailed :
            /\ BatchesOf(c) = {}
            /\ c \notin Completed
    /\ \A a \in Completed \ readFailed :
            /\ Cardinality(BatchesOf(a)) = 1
            /\ \A b \in BatchesOf(a) :
                    /\ CopiesIn(b, influxDb) = 1
                    /\ b.Batch = BatchPoints([Path |-> a, Points |-> SourcePoints(a)])
    /\ (readFailed # {} /\ Recorded \ readFailed \subseteq Completed /\ InExtract = {}) =>
            /\ firstInProgress # <<>>
            /\ Head(firstInProgress) \in readFailed
            /\ InProgress = readFailed

\* C16: with read failures skipped, the destination holds exactly one batch
\* for every completed unit, with exactly its source points in order, and none
\* for a unit whose read failed; such a unit never completes, and once the
\* others have completed it is the head of the list and stays there.
C16_EndToEnd == skipWhisperErrors => C16_Holds

\* the same for the bounded-range mode only
C16_EndToEndRange == (skipWhisperErrors /\ ~all) => C16_Holds

\* -------------------------------------------------------------------- C17
\* keepOrder has received an exit request
ExitRequested == keepOrderPc # "select"

\* C17: once keepOrder has received an exit request the process ends with the
\* code of that request and no other status; keepOrder receives one request
\* only, and nothing that happens after it changes the code or what was
\* printed as the cursor.
C17_GlobalExit ==
    /\ [](ExitRequested => exited \in {<<>>, <<code>>})
    /\ [][ExitRequested =>
            /\ code' = code
            /\ keepOrderPc' # "select"
            /\ printed # <<>> => printed' = printed]_vars

\* -------------------------------------------------------------------- C18
\* the process has ended with status 0, the list is empty, every key that was
\* handed over is completed, every worker has returned, no exit was requested
CleanEnd ==
    /\ exited = <<0>>
    /\ firstInProgress = <<>>
    /\ walkIdx > dirLen
    /\ Taken = Recorded
    /\ Recorded \subseteq Completed
    /\ \A w \in Workers(whisperPool) : w.pc = "done"
    /\ \A i \in Workers(influxPool) : i.pc = "done"
    /\ ~ExitRequested
    /\ code = 0

\* C18: with no walk error, no read failure, every retried write accepted in
\* the end and a fair scheduler, the pipeline does not deadlock: every run
\* reaches the end of the process with status 0, the list empty, every emitted
\* key completed and every worker returned, and no exit is ever requested.
C18_CleanTermination == <>CleanEnd /\ []~ExitRequested

\* three units went through, in a run whose failed writes are retried
C18_Witness ==
    /\ CleanEnd
    /\ skipInfluxErrors
    /\ Cardinality(Completed) = 3

\* -------------------------------------------------------------------- C19
\* C19: with read failures fatal, no batch of a unit with a failed open or
\* read is received by an influx worker, and none is written.
C19_FatalReadSendsNothing ==
    ~skipWhisperErrors =>
        \A p \in readFailed : p \notin Loaded /\ BatchesOf(p) = {}

\* -------------------------------------------------------------------- C20
\* the goroutines of a pool that hold key p: at most one local state, once
OneHolder(pool, held) ==
    /\ Cardinality(held) <= 1
    /\ \A g \in held : CopiesIn(g, pool) = 1

\* C20: every key is received from whisperFiles at most once, and by then it
\* was recorded; its batch is received from influxSeries at most once, from
\* the worker that took the key; its completion is received at most once, after
\* its batch was handed over; and at any time the key is held by at most one
\* goroutine: main, one whisper worker or one influx worker.
C20_AtMostOnce ==
    \A p \in Paths :
        LET inW == {w \in Workers(whisperPool) : w.path = p}
            inI == {i \in Workers(influxPool) : i.serie.Path = p}
            inM == {m \in HeldByMain : m = p}
        IN  /\ CopiesIn(p, taken) <= 1
            /\ CopiesIn(p, loaded) <= 1
            /\ CopiesIn(p, completed) <= 1
            /\ CopiesIn(p, loaded) <= CopiesIn(p, taken)
            /\ CopiesIn(p, completed) <= CopiesIn(p, loaded)
            /\ p \in Taken => p \in Recorded
            /\ OneHolder(whisperPool, inW)
            /\ OneHolder(influxPool, inI)
            /\ Cardinality(inW) + Cardinality(inI) + Cardinality(inM) <= 1
            /\ inW # {} => (p \in Taken /\ p \notin Loaded)
            /\ inI # {} => p \in Loaded

\* three keys went through both pools and were completed, while two workers
\* of each pool were running
C20_Witness ==
    /\ \A n \in 1..dirLen :
            /\ CopiesIn(Walk[n], taken) = 1
            /\ CopiesIn(Walk[n], loaded) = 1
            /\ CopiesIn(Walk[n], completed) = 1
    /\ BagCardinality(whisperPool) > 1
    /\ BagCardinality(influxPool) > 1
====
